---- MODULE Spec2Model ----
(***************************************************************************)
(* Model of the battery revenue simulator (streamlit_app.py, main()).      *)
(*                                                                         *)
(* One run of the script is modelled: the widget values are the inputs,    *)
(* the two validation blocks either stop the run or let it continue, the   *)
(* scenario dictionary is filled, the "Calculations" block derives the     *)
(* effective power and the investment, the scenario loop projects one      *)
(* scenario per step and the display loop renders the payback table.       *)
(*                                                                         *)
(* Python floats are modelled by exact rationals <<numerator, denominator>>*)
(* in lowest terms with a positive denominator, so every statement checked *)
(* here is a statement about the exact arithmetic the code approximates.   *)
(***************************************************************************)
EXTENDS Integers, Sequences, FiniteSets, TLC

\* Largest operational life (number of periods) explored.
MaxLife == 3

----------------------------------------------------------------------------
(* Exact arithmetic standing for Python's float operators. *)

Abs(x) == IF x < 0 THEN -x ELSE x

RECURSIVE GCD(_, _)
GCD(a, b) == IF b = 0 THEN a ELSE GCD(b, a % b)

\* n/d in lowest terms, denominator positive (d # 0).
Rat(n, d) ==
    LET g == GCD(Abs(n), Abs(d))
        s == IF d < 0 THEN -1 ELSE 1
    IN  <<s * (Abs(n) \div g) * (IF n < 0 THEN -1 ELSE 1), Abs(d) \div g>>

R(n) == <<n, 1>>

Pct(p) == Rat(p, 100)

RNeg(a) == <<-a[1], a[2]>>

RAdd(a, b) ==
    LET g == GCD(a[2], b[2])
    IN  Rat(a[1] * (b[2] \div g) + b[1] * (a[2] \div g), a[2] * (b[2] \div g))

RSub(a, b) == RAdd(a, RNeg(b))

RMul(a, b) ==
    LET g1 == GCD(Abs(a[1]), b[2])
        g2 == GCD(Abs(b[1]), a[2])
    IN  <<(a[1] \div g1) * (b[1] \div g2), (a[2] \div g2) * (b[2] \div g1)>>

\* a / b for b # 0
RDiv(a, b) ==
    RMul(a, IF b[1] < 0 THEN <<-b[2], -b[1]>> ELSE <<b[2], b[1]>>)

RLe(a, b) ==
    LET g == GCD(a[2], b[2])
    IN  a[1] * (b[2] \div g) <= b[1] * (a[2] \div g)

RLt(a, b) == ~RLe(b, a)

RGe(a, b) == RLe(b, a)

\* Python's min(a, b)
RMin(a, b) == IF RLt(b, a) THEN b ELSE a

\* a ** k for an integer k >= 0 (0 ** 0 = 1, as in numpy)
RECURSIVE RPow(_, _)
RPow(a, k) == IF k = 0 THEN R(1) ELSE RMul(a, RPow(a, k - 1))

----------------------------------------------------------------------------
(* Python's None / a value: the empty sequence / a one-element sequence. *)

None == <<>>

Some(x) == <<x>>

----------------------------------------------------------------------------
VARIABLES
    capacity,               \* st.number_input "Battery Capacity (MWh)"
    power,                  \* st.number_input "Battery Power Rating (MW)"
    efficiency,             \* st.slider "Round-trip Efficiency (%)"
    reserved_capacity_pct,  \* st.slider "Reserved Capacity for Other Uses (%)"
    availability,           \* st.slider "Availability (%)"
    activation_rate,        \* st.slider "Average aFRR Activation Rate (%)"
    operational_life,       \* st.number_input "Battery Operational Life (years)"
    battery_cost,           \* st.number_input "Battery Investment Cost"
    selected_scenarios,     \* multiselect plus the six widgets of each scenario
    scenarios,              \* dict scenario -> params, in insertion order
    usable_capacity,
    effective_power,
    total_investment,
    years,
    electricity_prices,     \* the locals of the scenario loop
    afrr_capacity_prices,
    afrr_activation_prices,
    annual_capacity_revenues,
    annual_energy_activated,
    annual_activation_revenues,
    annual_revenues,
    annual_energy_charged,
    annual_charging_costs,
    net_annual_revenues,
    cumulative_cash_flow,
    payback_period,
    cash_flows,
    npv,
    irr,
    results,                \* dict scenario -> result, in insertion order
    payback_data,           \* rows of the "Payback Periods" table
    pc                      \* position of the run in main()

inputs == <<capacity, power, efficiency, reserved_capacity_pct, availability,
            activation_rate, operational_life, battery_cost, selected_scenarios>>

derived == <<usable_capacity, effective_power, total_investment, years>>

trajectories == <<electricity_prices, afrr_capacity_prices, afrr_activation_prices>>

annual == <<annual_capacity_revenues, annual_energy_activated,
            annual_activation_revenues, annual_revenues,
            annual_energy_charged, annual_charging_costs, net_annual_revenues>>

metrics == <<cumulative_cash_flow, payback_period, cash_flows, npv, irr>>

locals == <<trajectories, annual, metrics>>

vars == <<inputs, scenarios, derived, locals, results, payback_data, pc>>

----------------------------------------------------------------------------
(* The widget values of one run.                                          *)
(*                                                                         *)
(* The values range over what the validation blocks of main() accept, plus *)
(* values they reject; the narrower limits of the sliders themselves       *)
(* (efficiency 70..100, reserved capacity 0..50) are not imposed.  Numbers *)
(* are integers: percentages as entered, prices and costs in whole euros.  *)

ScenarioOptions == {"Custom", "Base Case"}

\* the selections of the multiselect: distinct options, in selection order
Selections(names) ==
    {<<>>} \cup {<<n>> : n \in names}
           \cup {<<n, m>> : <<n, m>> \in {p \in names \X names : p[1] # p[2]}}

ParamSets(ElecI, ElecG, CapI, CapG, ActI, ActG) ==
    [initial_electricity_cost : ElecI,
     electricity_price_growth : ElecG,
     initial_afrr_capacity_price : CapI,
     afrr_capacity_price_growth : CapG,
     initial_afrr_activation_price : ActI,
     afrr_activation_price_growth : ActG]

\* the selected scenarios with the values of their six widgets
ScenarioInputs(names, P) ==
    {<<>>}
    \cup {<<[name |-> n, params |-> p]>> : <<n, p>> \in names \X P}
    \cup {<<[name |-> sel[1], params |-> p], [name |-> sel[2], params |-> q]>> :
             <<sel, p, q>> \in {s \in Selections(names) : Len(s) = 2} \X P \X P}

InitWith(CapS, PowS, EffS, ResS, AvS, ActS, LifeS, CostS, ScenS) ==
    /\ capacity \in CapS
    /\ power \in PowS
    /\ efficiency \in EffS
    /\ reserved_capacity_pct \in ResS
    /\ availability \in AvS
    /\ activation_rate \in ActS
    /\ operational_life \in LifeS
    /\ battery_cost \in CostS
    /\ selected_scenarios \in ScenS
    /\ scenarios = <<>>
    /\ usable_capacity = None
    /\ effective_power = None
    /\ total_investment = None
    /\ years = <<>>
    /\ electricity_prices = <<>>
    /\ afrr_capacity_prices = <<>>
    /\ afrr_activation_prices = <<>>
    /\ annual_capacity_revenues = <<>>
    /\ annual_energy_activated = None
    /\ annual_activation_revenues = <<>>
    /\ annual_revenues = <<>>
    /\ annual_energy_charged = None
    /\ annual_charging_costs = <<>>
    /\ net_annual_revenues = <<>>
    /\ cumulative_cash_flow = <<>>
    /\ payback_period = None
    /\ cash_flows = <<>>
    /\ npv = None
    /\ irr = "None"
    /\ results = <<>>
    /\ payback_data = <<>>
    /\ pc = "battery"

----------------------------------------------------------------------------
(* The calculations of the "Results" tab, as functions of their inputs. *)

\* (variant: the reserved share is kept instead of removed)
UsableCapacityReservedShare(cap, reserved) ==
    RMul(R(cap), Pct(reserved))

\* usable_capacity = capacity * (1 - reserved_capacity_pct / 100)
UsableCapacity(cap, reserved) ==
    RMul(R(cap), RSub(R(1), Pct(reserved)))

\* (variant: max in place of min)
EffectivePowerMax(pow, usable, eff, avail) ==
    LET e == RMul(usable, Pct(eff))
    IN  RMul(IF RLt(R(pow), e) THEN e ELSE R(pow), Pct(avail))

\* effective_power = min(power, usable_capacity * (efficiency / 100))
\*                   * (availability / 100)
EffectivePower(pow, usable, eff, avail) ==
    RMul(RMin(R(pow), RMul(usable, Pct(eff))), Pct(avail))

\* total_investment = capacity * battery_cost
TotalInvestment(cap, cost) == RMul(R(cap), R(cost))

\* years = np.arange(1, operational_life + 1)
Years(life) == [i \in 1..life |-> i]

\* (variant: prices clamped at zero)
PriceTrajectoryClamped(initial, growth, yrs) ==
    [i \in 1..Len(yrs) |->
        LET v == RMul(R(initial), RPow(RAdd(R(1), Pct(growth)), yrs[i] - 1))
        IN  IF v[1] < 0 THEN R(0) ELSE v]

\* (variant: the growth rate enters with the wrong sign)
PriceTrajectoryShrinking(initial, growth, yrs) ==
    [i \in 1..Len(yrs) |->
        RMul(R(initial), RPow(RSub(R(1), Pct(growth)), yrs[i] - 1))]

\* initial * ((1 + growth / 100) ** (years - 1))
PriceTrajectory(initial, growth, yrs) ==
    [i \in 1..Len(yrs) |->
        RMul(R(initial), RPow(RAdd(R(1), Pct(growth)), yrs[i] - 1))]

\* effective_power * afrr_capacity_prices * 24 * 365, for one year
CapacityRevenue(ep, price) ==
    RMul(RMul(RMul(ep, price), R(24)), R(365))

\* (variant: the energy of a month instead of a year)
EnergyActivatedMonthly(ep, rate) ==
    RDiv(RMul(RMul(RMul(ep, Pct(rate)), R(24)), R(365)), R(12))

\* annual_energy_activated = effective_power * (activation_rate / 100) * 24 * 365
EnergyActivated(ep, rate) ==
    RMul(RMul(RMul(ep, Pct(rate)), R(24)), R(365))

\* (variant: the efficiency multiplies instead of dividing)
EnergyChargedTimes(energy, eff) == RMul(energy, Pct(eff))

\* annual_energy_charged = annual_energy_activated / (efficiency / 100)
EnergyCharged(energy, eff) == RDiv(energy, Pct(eff))

\* ndarray.cumsum()
RECURSIVE CumSumUpTo(_, _)
CumSumUpTo(s, i) ==
    IF i = 1 THEN s[1] ELSE RAdd(CumSumUpTo(s, i - 1), s[i])

\* (variant: no accumulation)
CumSumNone(s) == [i \in 1..Len(s) |-> s[i]]

CumSum(s) == [i \in 1..Len(s) |-> CumSumUpTo(s, i)]

\* (variant: the investment is added instead of subtracted)
CumulativeCashFlowPlus(net, investment) ==
    LET cs == CumSum(net)
    IN  [i \in 1..Len(net) |-> RAdd(cs[i], investment)]

\* cumulative_cash_flow = net_annual_revenues.cumsum() - total_investment
CumulativeCashFlow(net, investment) ==
    LET cs == CumSum(net)
    IN  [i \in 1..Len(net) |-> RSub(cs[i], investment)]

\* (variant: cash > 0 in place of cash >= 0)
RECURSIVE PaybackFromStrict(_, _, _)
PaybackFromStrict(yrs, cum, i) ==
    IF i > Len(yrs) \/ i > Len(cum) THEN None
    ELSE IF RLt(R(0), cum[i]) THEN Some(yrs[i])
    ELSE PaybackFromStrict(yrs, cum, i + 1)

\* (variant: the last period is not scanned)
RECURSIVE PaybackFromSkipLast(_, _, _)
PaybackFromSkipLast(yrs, cum, i) ==
    IF i >= Len(yrs) \/ i >= Len(cum) THEN None
    ELSE IF RGe(cum[i], R(0)) THEN Some(yrs[i])
    ELSE PaybackFromSkipLast(yrs, cum, i + 1)

\* next((year for year, cash in zip(years, cumulative_cash_flow)
\*       if cash >= 0), None), scanning from position i
RECURSIVE PaybackFrom(_, _, _)
PaybackFrom(yrs, cum, i) ==
    IF i > Len(yrs) \/ i > Len(cum) THEN None
    ELSE IF RGe(cum[i], R(0)) THEN Some(yrs[i])
    ELSE PaybackFrom(yrs, cum, i + 1)

\* (variant: the position counted from zero)
PaybackPeriodZeroBased(yrs, cum) ==
    LET p == PaybackFrom(yrs, cum, 1)
    IN  IF p = None THEN None ELSE Some(p[1] - 1)

\* (variant: the last period with cash >= 0 instead of the first)
PaybackPeriodLast(yrs, cum) ==
    LET hits == {i \in 1..Len(cum) : RGe(cum[i], R(0))}
    IN  IF hits = {} THEN None
        ELSE Some(yrs[CHOOSE i \in hits : \A j \in hits : j <= i])

PaybackPeriod(yrs, cum) == PaybackFrom(yrs, cum, 1)

\* number of sign changes in the sequence of the non-zero cash flows
RECURSIVE SignChanges(_, _, _)
SignChanges(cf, i, last) ==
    IF i > Len(cf) THEN 0
    ELSE LET sg == IF cf[i][1] > 0 THEN 1 ELSE IF cf[i][1] < 0 THEN -1 ELSE 0
         IN  IF sg = 0 THEN SignChanges(cf, i + 1, last)
             ELSE (IF last # 0 /\ sg # last THEN 1 ELSE 0)
                  + SignChanges(cf, i + 1, sg)

\* np.irr(values): the rate of a positive real root of the cash-flow
\* polynomial, np.nan when there is none.  Without a sign change there is no
\* positive root, with an odd number of them there is one; otherwise either.
calculate_irr(values) ==
    LET n == SignChanges(values, 1, 0)
    IN  IF n = 0 THEN {"nan"}
        ELSE IF n % 2 = 1 THEN {"rate"}
        ELSE {"nan", "rate"}

discount_rate == Rat(5, 100)

\* Discounted amounts have denominators that grow with (1 + rate) ** t, so
\* they are kept as mixed numbers <<w, f, d>> = w + f/d with 0 <= f < d and
\* f/d in lowest terms, which keeps every intermediate value small.
Mixed(w, n, d) ==
    LET f == n % d
        g == GCD(f, d)
    IN  <<w + (n \div d), f \div g, d \div g>>

MFromRat(a) == Mixed(0, a[1], a[2])

MAdd(a, b) ==
    LET g == GCD(a[3], b[3])
    IN  Mixed(a[1] + b[1], a[2] * (b[3] \div g) + b[2] * (a[3] \div g),
              a[3] * (b[3] \div g))

\* a / b for a rational b > 0
MDiv(a, b) ==
    LET p == b[1]
        q == b[2]
        W == a[1] * q + ((a[2] * q) \div a[3])
        F == (a[2] * q) % a[3]
    IN  Mixed(W \div p, (W % p) * a[3] + F, a[3] * p)

\* a / b ** k
RECURSIVE MDivPow(_, _, _)
MDivPow(a, b, k) == IF k = 0 THEN a ELSE MDivPow(MDiv(a, b), b, k - 1)

\* (variant: the first value is discounted too, as a spreadsheet NPV does)
RECURSIVE NpvUpToShifted(_, _, _)
NpvUpToShifted(rate, values, k) ==
    IF k = 0 THEN MFromRat(R(0))
    ELSE MAdd(NpvUpToShifted(rate, values, k - 1),
              MDivPow(MFromRat(values[k]), RAdd(R(1), rate), k))

\* np.npv(rate, values): sum of values[t] / (1 + rate) ** t, t = 0..
RECURSIVE NpvUpTo(_, _, _)
NpvUpTo(rate, values, k) ==
    IF k = 0 THEN MFromRat(R(0))
    ELSE MAdd(NpvUpTo(rate, values, k - 1),
              MDivPow(MFromRat(values[k]), RAdd(R(1), rate), k - 1))

calculate_npv(rate, values) == NpvUpTo(rate, values, Len(values))

\* the DataFrame of one scenario, one row per year
DataFrame(yrs, elec, capp, actp, caprev, actrev, cost, net, cum) ==
    [i \in 1..Len(yrs) |->
        [Year |-> yrs[i],
         electricity_price |-> elec[i],
         capacity_price |-> capp[i],
         activation_price |-> actp[i],
         capacity_revenue |-> caprev[i],
         activation_revenue |-> actrev[i],
         charging_cost |-> cost[i],
         net_revenue |-> net[i],
         cumulative_cash_flow |-> cum[i]]]

\* (variant: the new entry is put in front of the others)
StoreResultInFront(res, entry) == <<entry>> \o res

\* results[scenario] = {...}: a new key goes after the existing ones
StoreResult(res, entry) == Append(res, entry)

\* payback_text = f"{payback}" if payback else t['Not within operational life']
PaybackText(payback) ==
    IF payback # None /\ payback[1] # 0 THEN ToString(payback[1])
    ELSE "Not within operational life"

\* npv_text = f"EUR{npv:,.2f}" if not npv is None else "N/A"
\* (np.npv does not raise on a list of floats, so the except branch that
\* would store np.nan is never taken)
NpvText(value) == IF value # None THEN "EUR{npv:,.2f}" ELSE "N/A"

\* irr_text = f"{irr * 100:.2f}%" if irr is not None else "N/A"
IrrText(rate) ==
    IF rate # "None" THEN (IF rate = "nan" THEN "nan%" ELSE "{irr*100:.2f}%")
    ELSE "N/A"

----------------------------------------------------------------------------
(* The run of main(). *)

BatteryInputInvalid ==
    capacity <= 0 \/ power <= 0 \/ efficiency <= 0 \/ efficiency > 100

OperationalInputInvalid ==
    \/ availability < 0 \/ availability > 100
    \/ activation_rate < 0 \/ activation_rate > 100

\* the battery tab passes its validation
BatteryInputs ==
    /\ pc = "battery"
    /\ ~BatteryInputInvalid
    /\ pc' = "operational"
    /\ UNCHANGED <<inputs, scenarios, derived, locals, results, payback_data>>

\* st.error(...); st.stop() in the battery tab
BatteryInputError ==
    /\ pc = "battery"
    /\ BatteryInputInvalid
    /\ pc' = "stopped"
    /\ UNCHANGED <<inputs, scenarios, derived, locals, results, payback_data>>

\* the operational tab passes its validation
OperationalInputs ==
    /\ pc = "operational"
    /\ ~OperationalInputInvalid
    /\ pc' = "scenarios"
    /\ UNCHANGED <<inputs, scenarios, derived, locals, results, payback_data>>

\* st.error(...); st.stop() in the operational tab
OperationalInputError ==
    /\ pc = "operational"
    /\ OperationalInputInvalid
    /\ pc' = "stopped"
    /\ UNCHANGED <<inputs, scenarios, derived, locals, results, payback_data>>

\* the scenario tab: scenarios[scenario] = {...} for each selected scenario
ScenarioSettings ==
    /\ pc = "scenarios"
    /\ scenarios' = selected_scenarios
    /\ pc' = "calculations"
    /\ UNCHANGED <<inputs, derived, locals, results, payback_data>>

\* the head of the results tab
Calculations ==
    /\ pc = "calculations"
    /\ usable_capacity' = UsableCapacity(capacity, reserved_capacity_pct)
    /\ effective_power' =
           EffectivePower(power, usable_capacity', efficiency, availability)
    /\ total_investment' = TotalInvestment(capacity, battery_cost)
    /\ years' = Years(operational_life)
    /\ results' = <<>>
    /\ pc' = "loop"
    /\ UNCHANGED <<inputs, scenarios, locals, payback_data>>

\* one iteration of "for scenario in scenarios"
ProjectScenario ==
    /\ pc = "loop"
    /\ Len(results) < Len(scenarios)
    /\ LET scenario == scenarios[Len(results) + 1].name
           params == scenarios[Len(results) + 1].params
           N == Len(years)
       IN  /\ electricity_prices' =
                  PriceTrajectory(params.initial_electricity_cost,
                                  params.electricity_price_growth, years)
           /\ afrr_capacity_prices' =
                  PriceTrajectory(params.initial_afrr_capacity_price,
                                  params.afrr_capacity_price_growth, years)
           /\ afrr_activation_prices' =
                  PriceTrajectory(params.initial_afrr_activation_price,
                                  params.afrr_activation_price_growth, years)
           /\ annual_capacity_revenues' =
                  [i \in 1..N |->
                      CapacityRevenue(effective_power, afrr_capacity_prices'[i])]
           /\ annual_energy_activated' =
                  EnergyActivated(effective_power, activation_rate)
           /\ annual_activation_revenues' =
                  [i \in 1..N |->
                      RMul(annual_energy_activated', afrr_activation_prices'[i])]
           /\ annual_revenues' =
                  [i \in 1..N |->
                      RAdd(annual_capacity_revenues'[i],
                           annual_activation_revenues'[i])]
           /\ annual_energy_charged' =
                  EnergyCharged(annual_energy_activated', efficiency)
           /\ annual_charging_costs' =
                  [i \in 1..N |->
                      RMul(annual_energy_charged', electricity_prices'[i])]
           /\ net_annual_revenues' =
                  [i \in 1..N |->
                      RSub(annual_revenues'[i], annual_charging_costs'[i])]
           /\ cumulative_cash_flow' =
                  CumulativeCashFlow(net_annual_revenues', total_investment)
           /\ payback_period' = PaybackPeriod(years, cumulative_cash_flow')
           /\ cash_flows' = <<RNeg(total_investment)>> \o net_annual_revenues'
           /\ npv' = calculate_npv(discount_rate, cash_flows')
           /\ irr' \in calculate_irr(cash_flows')
           /\ results' = StoreResult(results,
                  [scenario |-> scenario,
                   data |-> DataFrame(years, electricity_prices',
                                afrr_capacity_prices', afrr_activation_prices',
                                annual_capacity_revenues',
                                annual_activation_revenues',
                                annual_charging_costs', net_annual_revenues',
                                cumulative_cash_flow'),
                   payback_period |-> payback_period',
                   cash_flows |-> cash_flows',
                   npv |-> npv',
                   irr |-> irr'])
    /\ UNCHANGED <<inputs, scenarios, derived, payback_data, pc>>

\* the "Payback Periods" table, "for scenario in results"
Display ==
    /\ pc = "loop"
    /\ Len(results) = Len(scenarios)
    /\ payback_data' =
           [k \in 1..Len(results) |->
               [Scenario |-> results[k].scenario,
                payback_text |-> PaybackText(results[k].payback_period),
                npv_text |-> NpvText(results[k].npv),
                irr_text |-> IrrText(results[k].irr)]]
    /\ pc' = "done"
    /\ UNCHANGED <<inputs, scenarios, derived, locals, results>>

Next ==
    \/ BatteryInputs
    \/ BatteryInputError
    \/ OperationalInputs
    \/ OperationalInputError
    \/ ScenarioSettings
    \/ Calculations
    \/ ProjectScenario
    \/ Display

----------------------------------------------------------------------------
(* Specifications: the same run over three families of inputs. *)

\* runs with out-of-range widget values, for the two validation blocks
InitRejected ==
    InitWith({0, 2}, {0, 1}, {0, 90, 101}, {10}, {-1, 100, 101}, {15, 101},
             {1}, {0}, {<<>>})

\* payback and cash flow: one battery, a range of investments and scenarios
InitPayback ==
    InitWith({2}, {1}, {90}, {10}, {0, 100}, {0, 15},
             1..MaxLife, {0, 4380, 6000, 8760, 50000},
             ScenarioInputs(ScenarioOptions,
                 ParamSets({0, 50}, {0}, {1}, {-200, 0, 100}, {0}, {0})))

Init == InitPayback \/ InitRejected

Spec == Init /\ [][Next]_vars

\* effective power: a range of batteries, one scenario
InitBattery ==
    InitWith({0, 1, 2, 3}, {0, 1, 2}, {0, 50, 90, 100, 101}, {0, 10, 50, 100},
             {0, 50, 95, 100, 101}, {15}, 1..MaxLife, {350000},
             ScenarioInputs({"Base Case"},
                 ParamSets({50}, {0}, {80}, {0}, {110}, {0})))

SpecBattery == InitBattery /\ [][Next]_vars

\* price trajectories: one battery, a range of initial prices and growth rates
InitPrices ==
    \/ InitWith({2}, {1}, {100}, {0}, {100}, {15}, 1..MaxLife, {4380},
                ScenarioInputs({"Custom"},
                    ParamSets({0, 50}, {-200, -100, -50, 0, 100},
                              {0, 1}, {-200, -100, -50, 0, 100},
                              {0, 110}, {-200, -100, -50, 0, 100})))
    \/ InitRejected

SpecPrices == InitPrices /\ [][Next]_vars

\* Runs whose operational life may be below one year: the number input has
\* min_value=1 but, unlike the battery inputs, no check follows it.
InitConfig ==
    InitWith({0, 2}, {0, 1}, {0, 90, 101}, {10}, {-1, 100, 101}, {15, 101},
             0..MaxLife, {0, 4380},
             ScenarioInputs({"Base Case"},
                            ParamSets({50}, {0}, {1}, {0}, {0}, {0})))

SpecConfig == InitConfig /\ [][Next]_vars

\* Runs with a discounted sum that is easy to follow: with availability 1 %
\* the effective power is 0.01 MW, so a capacity price of 1 earns 87.6 a year.
InitMetrics ==
    \/ InitWith({2}, {1}, {100}, {0}, {1, 100}, {0}, 1..MaxLife, {0, 50, 200},
                ScenarioInputs(ScenarioOptions,
                    ParamSets({0}, {0}, {0, 1}, {0, 100}, {0}, {0})))
    \/ InitRejected

SpecMetrics == InitMetrics /\ [][Next]_vars

----------------------------------------------------------------------------
(* Vocabulary of the properties. *)

Zero == R(0)

ResultIds == 1..Len(results)

Cum(k, i) == results[k].data[i].cumulative_cash_flow

Net(k, i) == results[k].data[i].net_revenue

Periods(k) == 1..Len(results[k].data)

\* the periods whose cumulative cash flow is >= 0
Crossings(k) == {i \in Periods(k) : RGe(Cum(k, i), Zero)}

FirstCrossing(k) == CHOOSE i \in Crossings(k) : \A j \in Crossings(k) : i <= j

Payback(k) == results[k].payback_period

\* the interpolated payback at period i: (i-1) + (-cum[i-1]) / net[i],
\* totalInvestment / net[1] at the first period (net[i] # 0)
Interpolated(k, i) ==
    IF i = 1 THEN RDiv(total_investment, Net(k, 1))
    ELSE RAdd(R(i - 1), RDiv(RNeg(Cum(k, i - 1)), Net(k, i)))

\* the row of the payback table, once displayed
Displayed(k) == pc = "done" /\ k \in 1..Len(payback_data)

RECURSIVE IntPow(_, _)
IntPow(b, e) == IF e = 0 THEN 1 ELSE b * IntPow(b, e - 1)

RECURSIVE NetSum(_, _)
NetSum(k, i) == IF i = 0 THEN Zero ELSE RAdd(NetSum(k, i - 1), Net(k, i))

----------------------------------------------------------------------------
(* C1 *)

\* C1 (as stated): whenever some period has cumulative cash flow >= 0 and i
\* is the first such period, the reported payback is the interpolated value
\* (i-1) + (-cum[i-1]) / net[i], or totalInvestment / net[1] when i = 1.
C1_PaybackIsInterpolated ==
    \A k \in ResultIds :
        (Crossings(k) # {} /\ Net(k, FirstCrossing(k)) # Zero) =>
            /\ Payback(k) # None
            /\ R(Payback(k)[1]) = Interpolated(k, FirstCrossing(k))

\* C1 (amended): the reported payback is a whole period number p of the
\* projection, displayed as that integer; when the net revenue of period p is
\* positive the interpolated value is only a lower bound of it, lying in
\* (p-1, p] (in [0, 1] for p = 1), and equals p exactly when the cumulative
\* cash flow of period p is 0.
C1_PaybackIsWholePeriod ==
    \A k \in ResultIds :
        Payback(k) # None =>
            LET p == Payback(k)[1]
            IN  /\ p \in Periods(k)
                /\ Displayed(k) => payback_data[k].payback_text = ToString(p)
                /\ RLt(Zero, Net(k, p)) =>
                       /\ RLe(Interpolated(k, p), R(p))
                       /\ RLe(R(p - 1), Interpolated(k, p))
                       /\ p > 1 => RLt(R(p - 1), Interpolated(k, p))
                       /\ (Interpolated(k, p) = R(p)) <=> (Cum(k, p) = Zero)

\* a payback after the first period whose interpolated value is not whole
C1_Witness ==
    \E k \in ResultIds :
        /\ Displayed(k)
        /\ Payback(k) # None
        /\ Payback(k)[1] > 1
        /\ RLt(Zero, Cum(k, Payback(k)[1]))

----------------------------------------------------------------------------
(* C2 *)

\* C2: the payback is the smallest period whose cumulative cash flow is >= 0
\* (exactly 0 counts, later periods are ignored); it is None, displayed as
\* "Not within operational life", exactly when no period has one.
C2_PaybackAtFirstCrossing ==
    \A k \in ResultIds :
        /\ (Payback(k) = None) <=> (\A i \in Periods(k) : RLt(Cum(k, i), Zero))
        /\ Payback(k) # None =>
               /\ Payback(k)[1] \in Periods(k)
               /\ RGe(Cum(k, Payback(k)[1]), Zero)
               /\ \A j \in 1..(Payback(k)[1] - 1) : RLt(Cum(k, j), Zero)
        /\ Displayed(k) =>
               ((payback_data[k].payback_text = "Not within operational life")
                   <=> (\A i \in Periods(k) : RLt(Cum(k, i), Zero)))

\* a payback at a period whose cumulative cash flow is exactly 0, followed
\* by a negative period and by a second period at 0
C2_Witness ==
    \E k \in ResultIds :
        /\ Displayed(k)
        /\ Payback(k) = Some(1)
        /\ Cum(k, 1) = Zero
        /\ Len(results[k].data) >= 3
        /\ RLt(Cum(k, 2), Zero)
        /\ Cum(k, 3) = Zero

----------------------------------------------------------------------------
(* C3 *)

\* C3 (as stated): at a payback p the cumulative cash flow of the preceding
\* period (-totalInvestment for p = 1) is < 0 and that of p is >= 0.
C3_PrecedingStrictlyNegative ==
    \A k \in ResultIds :
        Payback(k) # None =>
            LET p == Payback(k)[1]
            IN  /\ RLt(IF p = 1 THEN RNeg(total_investment) ELSE Cum(k, p - 1),
                       Zero)
                /\ RGe(Cum(k, p), Zero)

\* C3 (amended): at a payback p the cumulative cash flow of p is >= 0 and
\* that of the preceding period is < 0 when p > 1; for p = 1 the preceding
\* value is -totalInvestment, which is < 0 when the investment cost is
\* positive and 0 when it is 0.
C3_PrecedingNegativeUnlessFree ==
    \A k \in ResultIds :
        Payback(k) # None =>
            LET p == Payback(k)[1]
            IN  /\ RGe(Cum(k, p), Zero)
                /\ p > 1 => RLt(Cum(k, p - 1), Zero)
                /\ p = 1 =>
                       /\ battery_cost > 0 => RLt(RNeg(total_investment), Zero)
                       /\ battery_cost = 0 => RNeg(total_investment) = Zero

\* a payback in the first period of a battery that costs nothing
C3_Witness ==
    \E k \in ResultIds :
        /\ Payback(k) = Some(1)
        /\ battery_cost = 0
        /\ RLt(Zero, Net(k, 1))

----------------------------------------------------------------------------
(* C4 *)

\* C4 (as stated): when the net revenue of the first period with cumulative
\* cash flow >= 0 is <= 0, the payback is None.
C4_DegenerateIsNull ==
    \A k \in ResultIds :
        (Crossings(k) # {} /\ RLe(Net(k, FirstCrossing(k)), Zero)) =>
            Payback(k) = None

\* C4 (amended): the net revenue of the first period with cumulative cash
\* flow >= 0 is <= 0 only when that period is period 1, the investment is 0
\* and the net revenue of period 1 is 0; the payback is then period 1,
\* displayed as "1".
C4_DegenerateIsFirstPeriod ==
    \A k \in ResultIds :
        (Crossings(k) # {} /\ RLe(Net(k, FirstCrossing(k)), Zero)) =>
            /\ FirstCrossing(k) = 1
            /\ total_investment = Zero
            /\ Net(k, 1) = Zero
            /\ Payback(k) = Some(1)
            /\ Displayed(k) => payback_data[k].payback_text = "1"

\* no investment, no availability: the first period crosses with net revenue 0
C4_Witness ==
    \E k \in ResultIds :
        /\ Displayed(k)
        /\ availability = 0
        /\ total_investment = Zero
        /\ Net(k, 1) = Zero
        /\ Crossings(k) # {}

----------------------------------------------------------------------------
(* C5 *)

\* the scenario of result k has three growth rates of 0 and the same positive
\* net revenue in every period, and the investment is at most N times it
ConstantRevenueCase(k) ==
    /\ scenarios[k].params.electricity_price_growth = 0
    /\ scenarios[k].params.afrr_capacity_price_growth = 0
    /\ scenarios[k].params.afrr_activation_price_growth = 0
    /\ \A i \in Periods(k) : Net(k, i) = Net(k, 1)
    /\ RLt(Zero, Net(k, 1))
    /\ RLe(total_investment, RMul(R(Len(results[k].data)), Net(k, 1)))

\* C5 (as stated): in the constant-revenue case the payback equals
\* totalInvestment / R.
C5_PaybackIsQuotient ==
    \A k \in ResultIds :
        ConstantRevenueCase(k) =>
            /\ Payback(k) # None
            /\ R(Payback(k)[1]) = RDiv(total_investment, Net(k, 1))

\* C5 (amended): in the constant-revenue case the payback is the smallest
\* whole number of periods p >= 1 with p x R >= totalInvestment, that is
\* totalInvestment / R rounded up to a whole period (1 when it is 0).
C5_PaybackIsQuotientRoundedUp ==
    \A k \in ResultIds :
        ConstantRevenueCase(k) =>
            /\ Payback(k) # None
            /\ LET p == Payback(k)[1]
                   q == RDiv(total_investment, Net(k, 1))
               IN  /\ p >= 1
                   /\ RLe(q, R(p))
                   /\ p > 1 => RLt(R(p - 1), q)

\* constant revenue, and an investment that is not a whole multiple of it
C5_Witness ==
    \E k \in ResultIds :
        /\ ConstantRevenueCase(k)
        /\ Payback(k) = Some(2)
        /\ RDiv(total_investment, Net(k, 1))[2] # 1

----------------------------------------------------------------------------
(* C6 *)

\* C6: totalInvestment = capacity x investment cost per MWh; the cumulative
\* cash flow starts from -totalInvestment, each period adds that period's net
\* revenue to the previous value, and the last value is -totalInvestment plus
\* the sum of all net revenues.
C6_RunningSum ==
    \A k \in ResultIds :
        /\ total_investment = <<capacity * battery_cost, 1>>
        /\ \A i \in Periods(k) :
               Cum(k, i) =
                   RAdd(IF i = 1 THEN RNeg(total_investment) ELSE Cum(k, i - 1),
                        Net(k, i))
        /\ LET N == Len(results[k].data)
           IN  N >= 1 =>
                   Cum(k, N) = RAdd(RNeg(total_investment), NetSum(k, N))

\* several periods with an investment and net revenues of both signs
C6_Witness ==
    \E k \in ResultIds :
        /\ Len(results[k].data) >= 3
        /\ RLt(Zero, total_investment)
        /\ RLt(Zero, Net(k, 1))
        /\ RLt(Net(k, 2), Zero)

----------------------------------------------------------------------------
(* C7 *)

\* C7: for a battery that passed validation, 0 <= effective power <= power
\* rating and effective power <= usable capacity x efficiency / 100.
C7_EffectivePowerBounded ==
    effective_power # None =>
        /\ RLe(Zero, effective_power)
        /\ RLe(effective_power, R(power))
        /\ RLe(effective_power, RMul(usable_capacity, Pct(efficiency)))

\* a battery limited by its usable energy and not fully available
C7_Witness ==
    /\ effective_power # None
    /\ RLt(RMul(usable_capacity, Pct(efficiency)), R(power))
    /\ availability \in 1..99
    /\ RLt(Zero, effective_power)
    /\ RLt(effective_power, RMul(usable_capacity, Pct(efficiency)))

----------------------------------------------------------------------------
(* C8 *)

\* C8: effective power = min(power, capacity x (1 - reserved/100) x
\* efficiency/100) x availability/100, computed here on integers scaled by
\* 10^6; capacity 2, power 1, efficiency 90, reserved 10, availability 95
\* give 0.95, and 700,000 of investment at 350,000 per MWh.
C8_EffectivePowerFormula ==
    effective_power # None =>
        LET byRating == power * 10000
            byEnergy == capacity * (100 - reserved_capacity_pct) * efficiency
            capped == IF byRating <= byEnergy THEN byRating ELSE byEnergy
        IN  /\ effective_power = Rat(capped * availability, 1000000)
            /\ (capacity = 2 /\ power = 1 /\ efficiency = 90
                  /\ reserved_capacity_pct = 10 /\ availability = 95) =>
                   /\ effective_power = <<19, 20>>
                   /\ battery_cost = 350000 =>
                          total_investment = <<700000, 1>>

\* the battery of the worked example
C8_Witness ==
    /\ effective_power = <<19, 20>>
    /\ capacity = 2 /\ power = 1 /\ efficiency = 90
    /\ reserved_capacity_pct = 10 /\ availability = 95
    /\ battery_cost = 350000
    /\ pc = "done"

----------------------------------------------------------------------------
(* C9 *)

\* entry i of a trajectory: initial x (100 + growth)^(i-1) / 100^(i-1)
Compounded(initial, growth, i) ==
    Rat(initial * IntPow(100 + growth, i - 1), IntPow(100, i - 1))

\* C9: each price series has one entry per period 1..N in increasing period
\* order, entry i being initial x (1 + growth/100)^(i-1) for the series' own
\* initial value and growth rate, negative values included.
C9_PriceTrajectories ==
    \A k \in ResultIds :
        LET prm == scenarios[k].params
            rows == results[k].data
        IN  /\ Len(rows) = operational_life
            /\ \A i \in 1..Len(rows) :
                   /\ rows[i].Year = i
                   /\ rows[i].electricity_price =
                          Compounded(prm.initial_electricity_cost,
                                     prm.electricity_price_growth, i)
                   /\ rows[i].capacity_price =
                          Compounded(prm.initial_afrr_capacity_price,
                                     prm.afrr_capacity_price_growth, i)
                   /\ rows[i].activation_price =
                          Compounded(prm.initial_afrr_activation_price,
                                     prm.afrr_activation_price_growth, i)

\* three series with three different growth rates, one of them negative
C9_Witness ==
    \E k \in ResultIds :
        /\ Len(results[k].data) >= 3
        /\ scenarios[k].params.electricity_price_growth = -200
        /\ scenarios[k].params.afrr_capacity_price_growth = 100
        /\ scenarios[k].params.afrr_activation_price_growth = -50
        /\ results[k].data[2].electricity_price[1] < 0
        /\ results[k].data[3].capacity_price[1] > 0
        /\ results[k].data[3].activation_price[1] > 0

----------------------------------------------------------------------------
(* C10 *)

\* the three series of result k as <<initial, growth, prices>>
Series(k) ==
    LET prm == scenarios[k].params
        rows == results[k].data
    IN  { <<prm.initial_electricity_cost, prm.electricity_price_growth,
            [i \in 1..Len(rows) |-> rows[i].electricity_price]>>,
          <<prm.initial_afrr_capacity_price, prm.afrr_capacity_price_growth,
            [i \in 1..Len(rows) |-> rows[i].capacity_price]>>,
          <<prm.initial_afrr_activation_price,
            prm.afrr_activation_price_growth,
            [i \in 1..Len(rows) |-> rows[i].activation_price]>> }

\* C10 (as stated): for initial > 0 a trajectory is constant at initial for
\* growth = 0, increasing for growth > 0 and decreasing (here: never rising)
\* for every growth < 0.
C10_MonotoneForEveryGrowth ==
    \A k \in ResultIds : \A s \in Series(k) :
        LET prices == s[3]
        IN  s[1] > 0 =>
                /\ s[2] = 0 => \A i \in 1..Len(prices) : prices[i] = R(s[1])
                /\ s[2] > 0 =>
                       \A i \in 1..(Len(prices) - 1) :
                           RLt(prices[i], prices[i + 1])
                /\ s[2] < 0 =>
                       \A i \in 1..(Len(prices) - 1) :
                           RLe(prices[i + 1], prices[i])

\* C10 (amended): for initial > 0 a trajectory is constant at initial for
\* growth = 0, strictly increasing for growth > 0, strictly decreasing for
\* -100 < growth < 0, and initial, 0, 0, ... for growth = -100; for
\* growth < -100 it alternates in sign, so it rises again at every odd period.
C10_MonotoneAboveMinus100 ==
    \A k \in ResultIds : \A s \in Series(k) :
        LET prices == s[3]
        IN  s[1] > 0 =>
                /\ s[2] = 0 => \A i \in 1..Len(prices) : prices[i] = R(s[1])
                /\ s[2] > 0 =>
                       \A i \in 1..(Len(prices) - 1) :
                           RLt(prices[i], prices[i + 1])
                /\ (s[2] < 0 /\ s[2] > -100) =>
                       \A i \in 1..(Len(prices) - 1) :
                           RLt(prices[i + 1], prices[i])
                /\ s[2] = -100 =>
                       \A i \in 1..Len(prices) :
                           prices[i] = IF i = 1 THEN R(s[1]) ELSE Zero
                /\ s[2] < -100 =>
                       \A i \in 1..(Len(prices) - 1) :
                           IF i % 2 = 1 THEN RLt(prices[i + 1], prices[i])
                                        ELSE RLt(prices[i], prices[i + 1])

\* a growing, a shrinking and a sign-alternating series over three periods
C10_Witness ==
    \E k \in ResultIds :
        /\ Len(results[k].data) >= 3
        /\ scenarios[k].params.initial_electricity_cost > 0
        /\ scenarios[k].params.electricity_price_growth = -200
        /\ scenarios[k].params.initial_afrr_capacity_price > 0
        /\ scenarios[k].params.afrr_capacity_price_growth = -50
        /\ scenarios[k].params.initial_afrr_activation_price > 0
        /\ scenarios[k].params.afrr_activation_price_growth = 100

----------------------------------------------------------------------------
(* C11 *)

\* the configuration errors the claim lists
InvalidConfig ==
    \/ capacity <= 0
    \/ power <= 0
    \/ efficiency <= 0 \/ efficiency > 100
    \/ availability < 0 \/ availability > 100
    \/ operational_life < 1

C11_RejectedInputProducesNothing ==
    /\ pc = "stopped" =>
           /\ results = <<>>
           /\ payback_data = <<>>
           /\ total_investment = None
           /\ cash_flows = <<>>
           /\ npv = None
           /\ irr = "None"
    /\ (BatteryInputInvalid \/ OperationalInputInvalid) =>
           /\ results = <<>>
           /\ payback_data = <<>>
           /\ pc \in {"battery", "operational", "stopped"}

----------------------------------------------------------------------------
(* C12 *)

\* result k is a complete entry of the k-th selected scenario
CompleteEntry(k) ==
    /\ results[k].scenario = selected_scenarios[k].name
    /\ Len(results[k].data) = operational_life
    /\ results[k].payback_period \in
           {None} \cup {Some(p) : p \in 1..operational_life}
    /\ results[k].npv # None
    /\ results[k].irr \in {"nan", "rate"}

\* the net revenue of every period of result k is negative
NeverEarns(k) ==
    \A i \in Periods(k) : RLt(Net(k, i), Zero)

\* C12: in a batch of scenarios no scenario stops the loop, whatever its
\* payback or IRR: the entries made so far are complete (rows, payback, NPV,
\* IRR) and belong to the first selected scenarios in selection order, the
\* loop is never past the selection, and a finished run has an entry and a
\* table row for every selected scenario, in selection order.
C12_EntryForEverySelectedScenario ==
    /\ Len(results) <= Len(selected_scenarios)
    /\ \A k \in ResultIds : CompleteEntry(k)
    /\ pc = "done" =>
           /\ Len(results) = Len(selected_scenarios)
           /\ Len(payback_data) = Len(selected_scenarios)
           /\ \A k \in ResultIds :
                  payback_data[k].Scenario = selected_scenarios[k].name

\* a batch of two: the first scenario never earns anything (no payback, no
\* IRR), the second one pays back
C12_Witness ==
    /\ pc = "done"
    /\ Len(results) = 2
    /\ results[1].scenario # results[2].scenario
    /\ NeverEarns(1)
    /\ results[1].payback_period = None
    /\ results[1].irr = "nan"
    /\ results[2].payback_period # None
    /\ results[2].irr = "rate"

----------------------------------------------------------------------------
(* C13 *)

\* the cash flows of result k, investment first, all have the same sign
SameSign(k) ==
    LET cf == results[k].cash_flows
    IN  \/ \A t \in 1..Len(cf) : RLe(cf[t], Zero)
        \/ \A t \in 1..Len(cf) : RGe(cf[t], Zero)

\* C13: when the cash flows of a scenario all have the same sign, so that no
\* IRR exists, the run still finishes, the table shows "N/A" as the IRR of
\* that scenario, and its NPV is computed and shown.
C13_NoIrrShownAsNotAvailable ==
    \A k \in ResultIds :
        SameSign(k) =>
            /\ results[k].irr = "nan"
            /\ results[k].npv = calculate_npv(discount_rate,
                                              results[k].cash_flows)
            /\ Displayed(k) =>
                   /\ payback_data[k].irr_text = "N/A"
                   /\ payback_data[k].npv_text = "EUR{npv:,.2f}"

\* C13 (what the code does): without an IRR the run finishes and the NPV is
\* computed and shown, and the IRR column reads "nan%".
C13_NoIrrShownAsNan ==
    \A k \in ResultIds :
        SameSign(k) =>
            /\ results[k].irr = "nan"
            /\ results[k].npv = calculate_npv(discount_rate,
                                              results[k].cash_flows)
            /\ Displayed(k) =>
                   /\ payback_data[k].irr_text = "nan%"
                   /\ payback_data[k].npv_text = "EUR{npv:,.2f}"

\* a displayed scenario that only loses money: every cash flow is negative
C13_Witness ==
    \E k \in ResultIds :
        /\ Displayed(k)
        /\ SameSign(k)
        /\ Periods(k) # {}
        /\ RLt(results[k].cash_flows[1], Zero)
        /\ NeverEarns(k)
        /\ payback_data[k].irr_text = "nan%"

----------------------------------------------------------------------------
(* C14 *)

\* cf[t] + (cf[t+1] + (cf[t+2] + ...) / (1 + rate)) / (1 + rate)
RECURSIVE Nested(_, _, _)
Nested(rate, cf, t) ==
    IF t > Len(cf) THEN MFromRat(Zero)
    ELSE MAdd(MFromRat(cf[t]),
              MDiv(Nested(rate, cf, t + 1), RAdd(R(1), rate)))

\* C14: the NPV of a scenario is the sum over t = 0..N of
\* cashFlows[t] / (1 + rate)^t at rate 0.05, where cashFlows[0] is
\* -totalInvestment and is not discounted and cashFlows[t] is the net revenue
\* of period t; at rate 0 the same sum is the plain sum of the cash flows,
\* which is the cumulative cash flow of the last period.
C14_NpvIsDiscountedSum ==
    \A k \in ResultIds :
        LET cf == results[k].cash_flows
            N == Len(results[k].data)
        IN  /\ Len(cf) = N + 1
            /\ cf[1] = RNeg(total_investment)
            /\ \A t \in 1..N : cf[t + 1] = Net(k, t)
            /\ results[k].npv = Nested(discount_rate, cf, 1)
            /\ N = 1 => results[k].npv =
                   MFromRat(RAdd(cf[1], RMul(cf[2], Rat(20, 21))))
            /\ N >= 1 =>
                   calculate_npv(Zero, cf) = MFromRat(Cum(k, N))

\* three periods of 87.6 after an investment of 100: the NPV is
\* -100 + 87.6/1.05 + 87.6/1.05^2 + 87.6/1.05^3 = 138 + 1718/3087
C14_Witness ==
    \E k \in ResultIds :
        /\ results[k].cash_flows =
               <<R(-100), Rat(438, 5), Rat(438, 5), Rat(438, 5)>>
        /\ results[k].npv = <<138, 1718, 3087>>

----------------------------------------------------------------------------
(* C15 *)

\* 24 * 365, the hours of a year
HoursPerYear == 8760

\* effectivePower x (activationRatePct / 100) x hours
Activated(hours) ==
    RMul(effective_power, Rat(activation_rate * hours, 100))

\* row i of result k follows the revenue formulas of the claim: the charging
\* cost is stated as chargingCost x efficiencyPct = energy x 100 x price
RevenueFormulas(k, i, hours) ==
    LET row == results[k].data[i]
    IN  /\ row.capacity_revenue =
               RMul(RMul(effective_power, row.capacity_price), R(hours))
        /\ row.activation_revenue =
               RMul(Activated(hours), row.activation_price)
        /\ RMul(row.charging_cost, R(efficiency)) =
               RMul(RMul(Activated(hours), R(100)), row.electricity_price)
        /\ row.net_revenue =
               RSub(RAdd(row.capacity_revenue, row.activation_revenue),
                    row.charging_cost)

\* effective power 0.95 and a capacity price of 80 in year 1
ExampleCase(k) ==
    /\ Periods(k) # {}
    /\ effective_power = Rat(95, 100)
    /\ results[k].data[1].capacity_price = R(80)

\* C15 (as stated): every period follows the revenue formulas, and effective
\* power 0.95 with capacity price 80 gives a year-1 capacity revenue of
\* 665,520.
C15_RevenueExample665520 ==
    \A k \in ResultIds :
        /\ \A i \in Periods(k) : RevenueFormulas(k, i, HoursPerYear)
        /\ ExampleCase(k) =>
               results[k].data[1].capacity_revenue = R(665520)

\* C15 (amended): net revenue = capacity revenue + activation revenue -
\* charging cost in every period, with capacity revenue = effective power x
\* capacity price x 8760, activation revenue = activated energy x activation
\* price, charging cost = (activated energy / (efficiency / 100)) x
\* electricity price and activated energy = effective power x (activation
\* rate / 100) x 8760; effective power 0.95 with capacity price 80 gives a
\* year-1 capacity revenue of 665,760.
C15_RevenueExample665760 ==
    \A k \in ResultIds :
        /\ \A i \in Periods(k) : RevenueFormulas(k, i, HoursPerYear)
        /\ ExampleCase(k) =>
               results[k].data[1].capacity_revenue = R(665760)

\* the example with an efficiency below 100 and all three prices positive
C15_Witness ==
    \E k \in ResultIds :
        /\ ExampleCase(k)
        /\ efficiency = 90
        /\ activation_rate > 0
        /\ RLt(Zero, results[k].data[1].activation_revenue)
        /\ RLt(Zero, results[k].data[1].charging_cost)
        /\ RLt(results[k].data[1].capacity_revenue,
               results[k].data[1].net_revenue)

----------------------------------------------------------------------------
(* C16 *)

\* the granularities the claim names, with their hours per period
Granularities == {"Year", "Quarter", "Month"}

HoursPerPeriod(g) ==
    CASE g = "Year" -> HoursPerYear
      [] g = "Quarter" -> HoursPerYear \div 4
      [] g = "Month" -> HoursPerYear \div 12

\* the hours that turn power and price into the capacity revenue of row i,
\* and the hours that turn power and activation rate into the energy behind
\* its activation revenue; None where the revenue has a zero factor
CapacityHours(k, i) ==
    LET row == results[k].data[i]
        perHour == RMul(effective_power, row.capacity_price)
    IN  IF perHour = Zero THEN None
        ELSE Some(RDiv(row.capacity_revenue, perHour))

ActivationHours(k, i) ==
    LET row == results[k].data[i]
        perHour == RMul(RMul(effective_power, Pct(activation_rate)),
                        row.activation_price)
    IN  IF perHour = Zero THEN None
        ELSE Some(RDiv(row.activation_revenue, perHour))

\* every period of every result counts `hours` hours, for the capacity
\* revenue and for the activated energy
HoursUsed(hours) ==
    \A k \in ResultIds : \A i \in Periods(k) :
        /\ CapacityHours(k, i) \in {None, Some(R(hours))}
        /\ ActivationHours(k, i) \in {None, Some(R(hours))}

====
